---- MODULE Spec2Model ----
(***************************************************************************)
(* Model of the SAP HANA adapter of the database mixin                     *)
(* (src/src/adapters/hdb.js): the textual filter compiler createQuery,     *)
(* the CRUD primitives find / count / insert / updateById that build and   *)
(* execute SQL text through the driver connection, and the connection      *)
(* life cycle connect / disconnect.                                        *)
(*                                                                         *)
(* SQL text is modelled as TLA+ strings, built with \o exactly as the      *)
(* JavaScript builds it with +, and cut with SubSeq as the JavaScript cuts *)
(* it with substring.                                                      *)
(***************************************************************************)
EXTENDS Integers, Sequences, FiniteSets, TLC

VARIABLES
    fields,         \* this.service.$fields: the field descriptors of the service
    connectionObj,  \* this.connectionObj: 0 is undefined, else the driver connection held
    conns,          \* the driver: state of every connection createConnection() handed out
    pc,             \* per caller of connect(): "idle", or "pending" while its promise is unsettled
    call,           \* the adapter method invoked last, with its arguments
    sql,            \* the statements the last method passed to connectionObj.exec, in order
    outcome,        \* what the caller of the last method observed
    kept            \* a createQuery result a caller holds on to: its params, its text
                    \* and whether the adapter held a connection when it was compiled

vars == <<fields, connectionObj, conns, pc, call, sql, outcome, kept>>

(***************************************************************************)
(* JavaScript values.  A scalar is [t, n, s]: its typeof-like tag, its     *)
(* number (or boolean as 0/1, or array length) and its text (a string's    *)
(* characters, or the text an array coerces to).  A value is a scalar plus *)
(* p, its properties under the operator names ($gt, ...), each a scalar;   *)
(* a property that is not there reads as undefined.                        *)
(***************************************************************************)
Operators == {"$in", "$nin", "$gt", "$gte", "$lt", "$lte", "$eq", "$ne", "$exists", "$raw"}

Undef == [t |-> "undefined", n |-> 0, s |-> ""]
Num(n) == [t |-> "number", n |-> n, s |-> ""]
Str(s) == [t |-> "string", n |-> 0, s |-> s]
Bool(b) == [t |-> "boolean", n |-> IF b THEN 1 ELSE 0, s |-> ""]
Arr(len, text) == [t |-> "array", n |-> len, s |-> text]
Obj == [t |-> "object", n |-> 0, s |-> "[object Object]"]

NoProps == [o \in Operators |-> Undef]
Lit(x) == [t |-> x.t, n |-> x.n, s |-> x.s, p |-> NoProps]
OpObj(props) == [t |-> "object", n |-> 0, s |-> "[object Object]",
                 p |-> [o \in Operators |-> IF o \in DOMAIN props THEN props[o] ELSE Undef]]

\* JavaScript truthiness, as the conditions `if (value.$gt)` and `if (entity[c])` test it.
Truthy(x) ==
    CASE x.t = "number" -> x.n # 0
      [] x.t = "string" -> x.s # ""
      [] x.t = "boolean" -> x.n = 1
      [] x.t = "undefined" -> FALSE
      [] x.t = "null" -> FALSE
      [] OTHER -> TRUE

\* What `'' + x` yields: the text a value contributes to a concatenated string.
ToStr(x) ==
    CASE x.t = "number" -> ToString(x.n)
      [] x.t = "string" -> x.s
      [] x.t = "boolean" -> (IF x.n = 1 THEN "true" ELSE "false")
      [] x.t = "undefined" -> "undefined"
      [] x.t = "null" -> "null"
      [] OTHER -> x.s

\* typeof value == "object" && value != null
IsObject(x) == x.t \in {"object", "array"}

\* s.substring(0, s.length - k)
DropLast(s, k) == IF Len(s) > k THEN SubSeq(s, 1, Len(s) - k) ELSE ""

(***************************************************************************)
(* The service and the adapter options.                                    *)
(***************************************************************************)
Field(name, columnName, type) ==
    [name |-> name, columnName |-> columnName, type |-> type, columnType |-> type]

\* Two services: one whose identifier is a string stored in column _id, one
\* whose identifier is declared a number.  Both have a date field and a field
\* whose physical column differs from its logical name.
StringIdFields ==
    << Field("id", "_id", "string"), Field("name", "name", "string"),
       Field("age", "age", "number"), Field("createdAt", "createdAt", "date"),
       Field("fullName", "FULL_NAME", "string") >>

NumberIdFields ==
    << Field("id", "id", "number"), Field("name", "name", "string"),
       Field("age", "age", "number"), Field("createdAt", "createdAt", "date"),
       Field("fullName", "FULL_NAME", "string") >>

Services == {StringIdFields, NumberIdFields}

\* this.opts.schema and this.opts.collection
schema == "ADDTAX"
table == "TAXD0000"

(***************************************************************************)
(* createQuery(params): the WHERE text of a filter.                        *)
(***************************************************************************)
\* this.service.$fields.find((elem) => elem?.columnName == key): the index of
\* the first descriptor whose columnName is the key, 0 when there is none.
keyDef(fs, key) ==
    LET hits == {i \in 1..Len(fs) : fs[i].columnName = key}
    IN IF hits = {} THEN 0 ELSE CHOOSE i \in hits : \A j \in hits : i <= j

isIdKey(key) == key = "id" \/ key = "_id"

\* The column the clause names: the identifier keys are replaced by _ID.
columnOf(key) == IF isIdKey(key) THEN "_ID" ELSE key

\* keyIsString: whether the operand is wrapped in single quotes.
keyIsString(fs, key) ==
    \/ isIdKey(key)
    \/ keyDef(fs, key) # 0 /\ fs[keyDef(fs, key)].columnType = "string"

\* key + " <op> '" + operand + "' AND "   or   key + ' <op> ' + operand + ' AND '
comparison(fs, key, op, operand) ==
    IF keyIsString(fs, key)
    THEN columnOf(key) \o " " \o op \o " '" \o ToStr(operand) \o "' AND "
    ELSE columnOf(key) \o " " \o op \o " " \o ToStr(operand) \o " AND "

placeholder == "IMPLEMENTAR"

\* The branches of the if / else-if chain that append the unfinished marker.
isPlaceholderBranch(value) ==
    \/ Truthy(value.p["$in"]) /\ value.p["$in"].t = "array"
    \/ Truthy(value.p["$nin"]) /\ value.p["$nin"].t = "array"

\* typeof x == "object"
TypeofObject(x) == x.t \in {"object", "array", "null"}

\* What one entry of Object.entries(query) appends to q: the if / else-if
\* chain over the operator properties, first truthy one wins.
fragment(fs, key, value) ==
    IF ~IsObject(value) THEN comparison(fs, key, "=", value)
    ELSE IF isPlaceholderBranch(value) THEN placeholder
    ELSE IF Truthy(value.p["$gt"]) THEN comparison(fs, key, ">", value.p["$gt"])
    ELSE IF Truthy(value.p["$gte"]) THEN comparison(fs, key, ">=", value.p["$gte"])
    ELSE IF Truthy(value.p["$lt"]) THEN comparison(fs, key, "<", value.p["$lt"])
    ELSE IF Truthy(value.p["$lte"]) THEN comparison(fs, key, "<=", value.p["$lte"])
    ELSE IF Truthy(value.p["$eq"]) THEN comparison(fs, key, "=", value.p["$eq"])
    ELSE IF Truthy(value.p["$ne"]) THEN comparison(fs, key, "!=", value.p["$ne"])
    ELSE IF value.p["$exists"] = Bool(TRUE) THEN placeholder
    ELSE IF value.p["$exists"] = Bool(FALSE) THEN placeholder
    ELSE IF Truthy(value.p["$raw"])
         THEN (IF value.p["$raw"].t = "string" THEN placeholder
               ELSE IF TypeofObject(value.p["$raw"]) THEN placeholder
               ELSE "")
    ELSE ""

\* The forEach over Object.entries(query): q after the first n entries.
RECURSIVE appendAll(_, _, _)
appendAll(fs, query, n) ==
    IF n = 0 THEN "WHERE "
    ELSE appendAll(fs, query, n - 1) \o fragment(fs, query[n].key, query[n].value)

\* A compiler that consults the connection: no filter while the adapter holds
\* no connection.
createQueryOnConnection(fs, params) ==
    LET query == IF params.defined /\ params.hasQuery THEN params.query ELSE << >>
        q == appendAll(fs, query, Len(query))
    IN IF q # "WHERE " /\ connectionObj # 0 THEN DropLast(q, 5) ELSE ""

\* params is [defined, hasQuery, query, sort]: query is the sequence of the
\* entries of params.query in key order, each [key, value].
createQuery(fs, params) ==
    LET query == IF params.defined /\ params.hasQuery THEN params.query ELSE << >>
        q == appendAll(fs, query, Len(query))
    IN IF q # "WHERE " THEN DropLast(q, 5) ELSE ""

(***************************************************************************)
(* The requests the model draws its inputs from.                           *)
(***************************************************************************)
MaxConds == 2       \* most conditions in one query
MaxRows == 1        \* most rows a statement returns or affects
MaxConns == 2       \* most connections the driver hands out in one run
NumCallers == 2     \* concurrent callers of connect()

Operands == {Num(0), Num(18), Str(""), Str("M"), Bool(FALSE)}
Comparators == {"$gt", "$gte", "$lt", "$lte", "$eq", "$ne"}

Conditions ==
    {Lit(x) : x \in Operands}
    \cup {OpObj(o :> x) : o \in Comparators, x \in Operands}
    \cup {OpObj("$in" :> Arr(2, "1,2")), OpObj("$nin" :> Arr(2, "1,2")),
          OpObj("$exists" :> Bool(TRUE)), OpObj("$exists" :> Bool(FALSE)),
          OpObj("$raw" :> Str("1=1")), OpObj("$raw" :> Obj),
          OpObj(<< >>),
          OpObj("$gte" :> Num(18) @@ "$lte" :> Num(65))}

Keys == {"id", "_id", "name", "age", "createdAt", "fullName", "FULL_NAME"}

Entry(key, value) == [key |-> key, value |-> value]

Entries == {Entry(k, v) : k \in Keys, v \in Conditions}

\* The entries that queries of two and more conditions are made of.
CoreEntries ==
    {Entry("age", OpObj("$gte" :> Num(18))), Entry("age", OpObj("$gt" :> Num(0))),
     Entry("name", Lit(Str("M"))), Entry("name", OpObj("$in" :> Arr(2, "1,2"))),
     Entry("id", Lit(Str("M"))), Entry("createdAt", OpObj("$lte" :> Str("M")))}

\* Object keys are unique: the sequences of n entries with distinct keys.
DistinctKeys(q) == \A i, j \in 1..Len(q) : i # j => q[i].key # q[j].key

RECURSIVE EntrySeqs(_, _)
EntrySeqs(S, n) ==
    IF n = 0 THEN {<< >>}
    ELSE {x \in {Append(q, e) : q \in EntrySeqs(S, n - 1), e \in S} : DistinctKeys(x)}

CoreQueries == UNION {EntrySeqs(CoreEntries, n) : n \in 2..MaxConds}
SingleQueries == {<< e >> : e \in Entries}

Sorts == {<< >>, << "-age" >>, << "-age", "name" >>, << "name", "-age" >>}

\* A request: params.query as its entries, params.sort as its list, and the
\* paging and tuning options; limit and offset 0, hint and collation "" when
\* the request does not carry them.
NoParams ==
    [defined |-> FALSE, hasQuery |-> FALSE, query |-> << >>, sort |-> << >>,
     limit |-> 0, offset |-> 0, hint |-> "", collation |-> ""]
Params(query, sort) ==
    [defined |-> TRUE, hasQuery |-> TRUE, query |-> query, sort |-> sort,
     limit |-> 0, offset |-> 0, hint |-> "", collation |-> ""]
SortOnly(sort) ==
    [defined |-> TRUE, hasQuery |-> FALSE, query |-> << >>, sort |-> sort,
     limit |-> 0, offset |-> 0, hint |-> "", collation |-> ""]
Paged(params, limit, offset) == [params EXCEPT !.limit = limit, !.offset = offset]
Tuned(params, hint, collation) == [params EXCEPT !.hint = hint, !.collation = collation]

\* The requests the compiler is exercised on alone.
CompilerParams ==
    {NoParams} \cup {SortOnly(s) : s \in Sorts}
    \cup {Params(q, << >>) : q \in {<< >>} \cup SingleQueries \cup CoreQueries}

\* The requests the adapter's methods are exercised on.
AdapterParams ==
    {NoParams, SortOnly(<< "-age", "name" >>), Params(<< >>, << >>),
     Params(<< Entry("age", OpObj("$gte" :> Num(18))) >>, << "name", "-age" >>),
     Params(<< Entry("age", OpObj("$gt" :> Num(0))) >>, << >>),
     Params(<< Entry("name", OpObj("$in" :> Arr(2, "1,2"))) >>, << >>),
     Params(<< Entry("id", Lit(Str("M"))) >>, << >>),
     Params(<< Entry("age", OpObj("$gte" :> Num(18) @@ "$lte" :> Num(65))) >>, << "-age" >>),
     Paged(Params(<< Entry("age", OpObj("$gte" :> Num(18))) >>, << >>), 10, 0),
     Paged(Params(<< >>, << >>), 10, 20),
     Tuned(Params(<< Entry("id", Lit(Str("M"))) >>, << >>), "NO_CS_JOIN", "de")}

\* What connectionObj.exec and connectionObj.connect may do: fail (throw), or
\* succeed with n rows returned, counted or affected.
Failure == [ok |-> FALSE, n |-> 0]
Success(n) == [ok |-> TRUE, n |-> n]
DriverOutcomes == {Failure} \cup {Success(n) : n \in 0..MaxRows}

Callers == 1..NumCallers

(***************************************************************************)
(* The statements the CRUD primitives build.                               *)
(***************************************************************************)
\* obj[key] of an object given as its entries; undefined when it has no such key.
prop(obj, key) ==
    LET hits == {i \in 1..Len(obj) : obj[i].key = key}
    IN IF hits = {} THEN Lit(Undef) ELSE obj[CHOOSE i \in hits : TRUE].value

\* find: 'select * from <schema>.<table>', then ' ' + createQuery(params) when
\* params.query is there and the compiled text is not empty.
findSql(fs, params) ==
    LET sqlQuery == "select * from " \o schema \o "." \o table
        query == createQuery(fs, params)
    IN IF params.defined /\ params.hasQuery /\ query # ""
       THEN sqlQuery \o " " \o query
       ELSE sqlQuery

\* count: the statement does not depend on params.
countSql(fs, params) == "select count(*) from " \o schema \o "." \o table

\* insert: queryFields and queryValues after the first n fields of $fields.
RECURSIVE queryFields(_, _, _)
queryFields(fs, entity, n) ==
    IF n = 0 THEN ""
    ELSE IF Truthy(prop(entity, fs[n].columnName))
         THEN queryFields(fs, entity, n - 1) \o fs[n].columnName \o ", "
         ELSE queryFields(fs, entity, n - 1)

RECURSIVE queryValues(_, _, _)
queryValues(fs, entity, n) ==
    IF n = 0 THEN ""
    ELSE IF Truthy(prop(entity, fs[n].columnName))
         THEN IF fs[n].columnType = "string"
              THEN queryValues(fs, entity, n - 1) \o "'"
                       \o ToStr(prop(entity, fs[n].columnName)) \o "', "
              ELSE queryValues(fs, entity, n - 1)
                       \o ToStr(prop(entity, fs[n].columnName)) \o ", "
         ELSE queryValues(fs, entity, n - 1)

insertSql(fs, entity) ==
    "insert into " \o schema \o "." \o table
        \o "(" \o DropLast(queryFields(fs, entity, Len(fs)), 2)
        \o ") VALUES(" \o DropLast(queryValues(fs, entity, Len(fs)), 2) \o ")"

\* updateById: setString after the first n entries of changes.
RECURSIVE setString(_, _, _)
setString(fs, changes, n) ==
    IF n = 0 THEN ""
    ELSE LET key == changes[n].key
             value == changes[n].value
             isString == keyDef(fs, key) # 0 /\ fs[keyDef(fs, key)].columnType = "string"
         IN IF isString
            THEN setString(fs, changes, n - 1) \o " " \o key \o "='" \o ToStr(value) \o "',"
            ELSE setString(fs, changes, n - 1) \o " " \o key \o "=" \o ToStr(value) \o ","

updateSql(fs, id, changes) ==
    "UPDATE " \o schema \o "." \o table \o " SET "
        \o DropLast(setString(fs, changes, Len(changes)), 1)
        \o "WHERE _ID = '" \o ToStr(id) \o "'"

\* transformSort(sort): the sort object, as its entries in insertion order;
\* 1 is ascending and -1 descending.  A name given twice keeps its first place
\* and takes its last direction.
sortField(s) == IF Len(s) > 0 /\ SubSeq(s, 1, 1) = "-" THEN SubSeq(s, 2, Len(s)) ELSE s
sortDir(s) == IF Len(s) > 0 /\ SubSeq(s, 1, 1) = "-" THEN -1 ELSE 1

RECURSIVE transformSort(_, _)
transformSort(sort, n) ==
    IF n = 0 THEN << >>
    ELSE LET res == transformSort(sort, n - 1)
             f == sortField(sort[n])
             hits == {i \in 1..Len(res) : res[i].field = f}
         IN IF hits = {}
            THEN Append(res, [field |-> f, dir |-> sortDir(sort[n])])
            ELSE [i \in 1..Len(res) |->
                     IF i \in hits THEN [field |-> f, dir |-> sortDir(sort[n])] ELSE res[i]]

(***************************************************************************)
(* The adapter as a state machine.                                         *)
(***************************************************************************)
NoId == Lit(Undef)
Call(op, params, id, data) == [op |-> op, params |-> params, id |-> id, data |-> data]

\* What a caller observes: a returned value (its kind, its text when it is
\* text, its number when it is a number or a row count) or a thrown error.
Return(type, text, n) == [kind |-> "return", type |-> type, text |-> text, n |-> n]
Throw(name) == [kind |-> "throw", type |-> "error", text |-> name, n |-> 0]
Nothing == [kind |-> "none", type |-> "undefined", text |-> "", n |-> 0]

\* One statement handed to connectionObj.exec, and whether the driver ran it.
Stmt(text, d) == [text |-> text, ok |-> d.ok]

\* The driver runs statements only on a connection that is connected.
usable(co, cs) == co # 0 /\ cs[co] = "connected"
ExecOutcomes == {d \in DriverOutcomes : d.ok => usable(connectionObj, conns)}

\* The statements that reach the driver: none when connectionObj is undefined
\* (the call on it throws a TypeError before the driver is involved).
executed(stmts) == IF connectionObj = 0 THEN << >> ELSE stmts

Entities ==
    {<< >>,
     << Entry("_id", Lit(Str("M"))), Entry("name", Lit(Str("M"))), Entry("age", Lit(Num(18))) >>,
     << Entry("name", Lit(Str(""))), Entry("age", Lit(Num(0))) >>,
     << Entry("age", Lit(Num(18))), Entry("FULL_NAME", Lit(Str("M"))) >>}

Ids == {Lit(Str("")), Lit(Str("M"))}

Changes ==
    {<< >>,
     << Entry("age", Lit(Num(18))) >>,
     << Entry("name", Lit(Str("M"))), Entry("age", Lit(Num(0))) >>}

NotKept == [set |-> FALSE, params |-> NoParams, text |-> "", connected |-> FALSE]

Init ==
    /\ fields \in Services
    /\ connectionObj = 0
    /\ conns = << >>
    /\ pc = [c \in Callers |-> "idle"]
    /\ call = Call("none", NoParams, NoId, << >>)
    /\ sql = << >>
    /\ outcome = Nothing
    /\ kept = NotKept

\* A connect() without its guard: it opens a connection whatever it holds.
mustConnectUnguarded(co) == TRUE

\* if(!this.connectionObj)
mustConnect(co) == co = 0

\* connect(): the body has no await, so it runs to its end when it is called;
\* the promise it returns settles later.  A failure of the driver's connect is
\* caught and logged.
Connect(c) ==
    /\ pc[c] = "idle"
    /\ IF mustConnect(connectionObj)
       THEN /\ Len(conns) < MaxConns
            /\ \E d \in {Failure, Success(0)} :
                   conns' = Append(conns, IF d.ok THEN "connected" ELSE "failed")
            /\ connectionObj' = Len(conns) + 1
       ELSE UNCHANGED <<connectionObj, conns>>
    /\ pc' = [pc EXCEPT ![c] = "pending"]
    /\ call' = Call("connect", NoParams, NoId, << >>)
    /\ sql' = << >>
    /\ outcome' = Return("undefined", "", 0)
    /\ UNCHANGED <<fields, kept>>

\* The promise of a connect() call settles and its caller goes on.
Settle(c) ==
    /\ pc[c] = "pending"
    /\ pc' = [pc EXCEPT ![c] = "idle"]
    /\ UNCHANGED <<fields, kept, connectionObj, conns, call, sql, outcome>>

\* A disconnect() that closes the connection and goes on holding it.
DisconnectKeepingObject ==
    /\ IF connectionObj # 0
       THEN /\ conns' = [conns EXCEPT ![connectionObj] = "closed"]
            /\ UNCHANGED connectionObj
       ELSE UNCHANGED <<connectionObj, conns>>
    /\ call' = Call("disconnect", NoParams, NoId, << >>)
    /\ sql' = << >>
    /\ outcome' = Return("undefined", "", 0)
    /\ UNCHANGED <<fields, kept, pc>>

\* disconnect(): the driver's disconnect, then connectionObj = undefined.
Disconnect ==
    /\ IF connectionObj # 0
       THEN /\ conns' = [conns EXCEPT ![connectionObj] = "closed"]
            /\ connectionObj' = 0
       ELSE UNCHANGED <<connectionObj, conns>>
    /\ call' = Call("disconnect", NoParams, NoId, << >>)
    /\ sql' = << >>
    /\ outcome' = Return("undefined", "", 0)
    /\ UNCHANGED <<fields, kept, pc>>

\* The rename of an identifier key written into params.query itself.
queryAfterInPlace(params) ==
    [i \in 1..Len(params.query) |->
        IF isIdKey(params.query[i].key)
        THEN [params.query[i] EXCEPT !.key = "_ID"]
        ELSE params.query[i]]

\* params.query as createQuery leaves it: the conditions are read from the
\* copy Object.assign({}, params.query), and `key = '_ID'` assigns the
\* callback's own parameter.
queryAfter(params) == params.query

\* createQuery(params): it reads params and this.service.$fields and assigns
\* nothing but its locals.  data is params.query as the call left it.
CreateQuery(P) ==
    \E params \in P :
        /\ call' = Call("createQuery", params, NoId, queryAfter(params))
        /\ sql' = << >>
        /\ outcome' = Return("string", createQuery(fields, params), 0)
        /\ UNCHANGED <<fields, kept, connectionObj, conns, pc>>

\* find(params): the exec is not guarded, so its error reaches the caller.
Find ==
    \E params \in AdapterParams, d \in ExecOutcomes :
        /\ call' = Call("find", params, NoId, << >>)
        /\ sql' = executed(<< Stmt(findSql(fields, params), d) >>)
        /\ outcome' = IF connectionObj = 0 THEN Throw("TypeError")
                      ELSE IF ~d.ok THEN Throw("DriverError")
                      ELSE Return("rows", "", d.n)
        /\ UNCHANGED <<fields, kept, connectionObj, conns, pc>>

\* count(params): the exec is inside try / catch with an empty handler.
Count ==
    \E params \in AdapterParams, d \in ExecOutcomes :
        /\ call' = Call("count", params, NoId, << >>)
        /\ sql' = executed(<< Stmt(countSql(fields, params), d) >>)
        /\ outcome' = IF d.ok THEN Return("number", "", d.n) ELSE Return("number", "", 0)
        /\ UNCHANGED <<fields, kept, connectionObj, conns, pc>>

\* insert(entity): the exec is inside try / catch with an empty handler, and
\* the entity is returned on both paths.
Insert ==
    \E entity \in Entities, d \in ExecOutcomes :
        /\ call' = Call("insert", NoParams, NoId, entity)
        /\ sql' = executed(<< Stmt(insertSql(fields, entity), d) >>)
        /\ outcome' = Return("entity", "", 0)
        /\ UNCHANGED <<fields, kept, connectionObj, conns, pc>>

\* updateById(id, changes): the UPDATE is inside try / catch with an empty
\* handler; when its result is truthy the document is read back with
\* find({query: {id: id}}), whose exec is not guarded.
UpdateById ==
    \E id \in Ids, changes \in Changes, d \in ExecOutcomes :
      \E r \in IF d.ok /\ d.n # 0 THEN ExecOutcomes ELSE {d} :
        LET update == Stmt(updateSql(fields, id, changes), d)
            select == Stmt(findSql(fields, Params(<< Entry("id", id) >>, << >>)), r)
            built == Truthy(id) /\ setString(fields, changes, Len(changes)) # ""
            updated == built /\ d.ok /\ d.n # 0
        IN /\ call' = Call("updateById", NoParams, id, changes)
           /\ sql' = executed(IF ~built THEN << >>
                              ELSE IF ~updated THEN << update >>
                              ELSE << update, select >>)
           /\ outcome' = IF ~updated THEN Return("undefined", "", 0)
                         ELSE IF ~r.ok THEN Throw("DriverError")
                         ELSE IF r.n = 0 THEN Return("undefined", "", 0)
                         ELSE Return("document", "", 0)
           /\ UNCHANGED <<fields, kept, connectionObj, conns, pc>>

(***************************************************************************)
(* The identifier conversions.                                             *)
(***************************************************************************)
\* A native ObjectId of the given hex text.
ObjectIdOf(hex) == [t |-> "objectid", n |-> 0, s |-> hex]

\* hdb.js neither declares nor imports ObjectId: reading the name throws a
\* ReferenceError.
ObjectIdDeclared == FALSE

HexDigits == {"0", "1", "2", "3", "4", "5", "6", "7", "8", "9", "a", "b", "c", "d", "e", "f"}

\* ObjectId.isValid on a string: 24 hex digits.
isValid(s) == Len(s) = 24 /\ \A i \in 1..Len(s) : SubSeq(s, i, i) \in HexDigits

\* The value a conversion hands back, as the caller's outcome.
Returned(id) == Return(id.t, id.s, id.n)

\* if (typeof id == "string" && ObjectId.isValid(id))
\*     return ObjectId.createFromHexString(id);
\* return id;
stringToObjectID(id) ==
    IF id.t # "string" THEN Returned(id)
    ELSE IF ~ObjectIdDeclared THEN Throw("ReferenceError")
    ELSE IF isValid(id.s) THEN Returned(ObjectIdOf(id.s))
    ELSE Returned(id)

\* if (id && id.toHexString) return id.toHexString();  return id;
objectIDToString(id) ==
    IF Truthy(id) /\ id.t = "objectid" THEN Returned(Str(id.s)) ELSE Returned(id)

\* The values the conversions are called with.
IdInputs ==
    {Lit(Str("507f1f77bcf86cd799439011")), Lit(Str("M")), Lit(Str("")),
     Lit(Num(18)), NoId, Lit(ObjectIdOf("507f1f77bcf86cd799439011"))}

StringToObjectID ==
    \E id \in IdInputs :
        /\ call' = Call("stringToObjectID", NoParams, id, << >>)
        /\ sql' = << >>
        /\ outcome' = stringToObjectID(id)
        /\ UNCHANGED <<fields, kept, connectionObj, conns, pc>>

ObjectIDToString ==
    \E id \in IdInputs :
        /\ call' = Call("objectIDToString", NoParams, id, << >>)
        /\ sql' = << >>
        /\ outcome' = objectIDToString(id)
        /\ UNCHANGED <<fields, kept, connectionObj, conns, pc>>

\* A caller holds on to the text createQuery just returned.
Keep ==
    /\ call.op = "createQuery"
    /\ outcome.kind = "return"
    /\ kept' = [set |-> TRUE, params |-> call.params, text |-> outcome.text,
                connected |-> connectionObj # 0]
    /\ UNCHANGED <<fields, connectionObj, conns, pc, call, sql, outcome>>

Next ==
    \/ \E c \in Callers : Connect(c)
    \/ \E c \in Callers : Settle(c)
    \/ Disconnect
    \/ CreateQuery(AdapterParams)
    \/ Find
    \/ Count
    \/ Insert
    \/ UpdateById
    \/ StringToObjectID
    \/ ObjectIDToString

Spec == Init /\ [][Next]_vars

\* The filter compiler alone, over every condition the model draws.
NextCompiler == CreateQuery(CompilerParams)

CompilerSpec == Init /\ [][NextCompiler]_vars

\* The requests compiled twice.
ReplayParams ==
    {NoParams,
     Params(<< Entry("id", Lit(Str("M"))) >>, << >>),
     Params(<< Entry("age", OpObj("$gte" :> Num(18) @@ "$lte" :> Num(65))) >>, << "-age" >>)}

\* The compiler called again and again between the other operations, with a
\* caller holding on to an earlier result.
NextReplay ==
    \/ \E c \in Callers : Connect(c)
    \/ \E c \in Callers : Settle(c)
    \/ Disconnect
    \/ CreateQuery(ReplayParams)
    \/ Keep
    \/ Find
    \/ Insert
    \/ UpdateById

ReplaySpec == Init /\ [][NextReplay]_vars

(***************************************************************************)
(* Text helpers of the properties.                                         *)
(***************************************************************************)
\* The first position at or after `from` where sub occurs in text; 0 if none.
IndexFrom(text, sub, from) ==
    LET at == {i \in from..(Len(text) - Len(sub) + 1) : SubSeq(text, i, i + Len(sub) - 1) = sub}
    IN IF at = {} THEN 0 ELSE CHOOSE i \in at : \A j \in at : i <= j

Contains(text, sub) == IndexFrom(text, sub, 1) # 0

EndsWith(text, sub) ==
    Len(text) >= Len(sub) /\ SubSeq(text, Len(text) - Len(sub) + 1, Len(text)) = sub

\* The SQL comparison sign of a comparison operator.
Sign(o) ==
    CASE o = "$gt" -> ">" [] o = "$gte" -> ">=" [] o = "$lt" -> "<"
      [] o = "$lte" -> "<=" [] o = "$eq" -> "=" [] o = "$ne" -> "!="

\* The word by which a clause for an operator is recognised in SQL text.
Keyword(o) ==
    CASE o = "$in" -> " IN " [] o = "$nin" -> " NOT IN " [] o = "$exists" -> " IS "
      [] o = "$raw" -> "1=1" [] OTHER -> " " \o Sign(o) \o " "

\* The operators a condition object carries.
Uses(value) == {o \in Operators : value.p[o] # Undef}

\* The last call was createQuery and it returned text.
Compiled == call.op = "createQuery" /\ outcome.kind = "return"
Query == IF call.params.defined /\ call.params.hasQuery THEN call.params.query ELSE << >>

\* The descriptor of the field a key names, by logical name; 0 if none.
fieldNamed(fs, key) ==
    LET hits == {i \in 1..Len(fs) : fs[i].name = key}
    IN IF hits = {} THEN 0 ELSE CHOOSE i \in hits : TRUE

(***************************************************************************)
(* The filter compiler: C1 .. C7, checked under CompilerSpec.              *)
(***************************************************************************)
\* C1: every operator of a condition is either rendered as a clause of its own
\* or rejected with an UnsupportedOperatorError, and the returned text never
\* holds the placeholder token.
C1_OperatorRenderedOrRejected ==
    call.op = "createQuery" =>
        \/ outcome.kind = "throw" /\ outcome.text = "UnsupportedOperatorError"
        \/ /\ outcome.kind = "return"
           /\ ~Contains(outcome.text, placeholder)
           /\ \A i \in 1..Len(Query) :
                  IsObject(Query[i].value) =>
                      \A o \in Uses(Query[i].value) : Contains(outcome.text, Keyword(o))

\* C2: no condition is dropped: a non-empty query never compiles to the empty
\* filter, and every key of the query has a clause on its column in the text,
\* whatever the operand (0, false and '' included) and also for an operator
\* object that holds no recognised operator.
C2_NoConditionDropped ==
    (Compiled /\ Len(Query) > 0) =>
        /\ outcome.text # ""
        /\ \A i \in 1..Len(Query) : Contains(outcome.text, columnOf(Query[i].key) \o " ")

\* C3: the operand of a literal equality or of a comparison operator is quoted
\* exactly when the declared type of the field is string or date.  Stated on
\* the queries of one condition whose key is the column name of a declared
\* field other than the identifier and whose operand is rendered.
C3_QuotedIffStringOrDate ==
    (Compiled /\ Len(Query) = 1) =>
        LET key == Query[1].key
            value == Query[1].value
            f == keyDef(fields, key)
            quotedIfTyped(x) ==
                Contains(outcome.text, "'" \o ToStr(x) \o "'")
                    <=> fields[f].type \in {"string", "date"}
        IN (f # 0 /\ ~isIdKey(key)) =>
               /\ (~IsObject(value) /\ Truthy(value)) => quotedIfTyped(value)
               /\ IsObject(value) =>
                      \A o \in Comparators :
                          (Uses(value) = {o} /\ Truthy(value.p[o])) => quotedIfTyped(value.p[o])

\* C4: a condition keyed by id or _id is rendered against the column _ID, for
\* every operator, and a literal or comparison operand of it is quoted
\* whatever type the service declares for the identifier.
C4_IdentifierOnPhysicalColumnQuoted ==
    (Compiled /\ Len(Query) = 1 /\ isIdKey(Query[1].key)) =>
        LET value == Query[1].value
        IN /\ Contains(outcome.text, "_ID ")
           /\ ~IsObject(value) => Contains(outcome.text, "'" \o ToStr(value) \o "'")
           /\ IsObject(value) =>
                  \A o \in Comparators \cap Uses(value) :
                      Contains(outcome.text, "'" \o ToStr(value.p[o]) \o "'")

\* C5: a condition keyed by the logical name of a field is rendered against
\* the columnName of that field, and is quoted as that field's descriptor
\* says.  Stated on literal conditions with a rendered operand, on fields
\* other than the identifier.
C5_LogicalNameResolvedToColumn ==
    (Compiled /\ Len(Query) = 1) =>
        LET key == Query[1].key
            value == Query[1].value
            f == fieldNamed(fields, key)
        IN (f # 0 /\ ~isIdKey(key) /\ ~IsObject(value) /\ Truthy(value)) =>
               /\ Contains(outcome.text, fields[f].columnName \o " = ")
               /\ Contains(outcome.text, "'" \o ToStr(value) \o "'")
                      <=> fields[f].columnType = "string"

\* The clause a condition contributes, without the joiner that may follow it.
clauseOf(fs, e) ==
    LET f == fragment(fs, e.key, e.value)
    IN IF EndsWith(f, " AND ") THEN DropLast(f, 5) ELSE f

RECURSIVE joinedClauses(_, _, _)
joinedClauses(fs, query, n) ==
    IF n = 1 THEN clauseOf(fs, query[1])
    ELSE joinedClauses(fs, query, n - 1) \o " AND " \o clauseOf(fs, query[n])

\* C6: an absent or empty query compiles to the empty string; a query of
\* n >= 1 conditions compiles to 'WHERE ' and the n clauses in key order with
\* exactly ' AND ' between two of them, nothing after the last and nothing cut
\* off it, whatever operator the last condition uses.  Stated on the queries
\* whose conditions each contribute a clause.
C6_ClausesJoinedByAnd ==
    Compiled =>
        IF Len(Query) = 0 THEN outcome.text = ""
        ELSE (\A i \in 1..Len(Query) : clauseOf(fields, Query[i]) # "") =>
                 outcome.text = "WHERE " \o joinedClauses(fields, Query, Len(Query))

\* C7: a condition object with two bounds compiles to both bounds on its
\* column: every comparison operator it carries with a rendered operand has
\* its comparison in the text.
C7_BothBoundsRendered ==
    Compiled =>
        \A i \in 1..Len(Query) :
            IsObject(Query[i].value) =>
                \A o \in Comparators \cap Uses(Query[i].value) :
                    Truthy(Query[i].value.p[o]) =>
                        Contains(outcome.text,
                                 columnOf(Query[i].key) \o " " \o Sign(o) \o " ")

(***************************************************************************)
(* The adapter: C8 .. C10, checked under Spec.                             *)
(***************************************************************************)
\* No connection has been closed yet: every connect() so far is a first-time one.
FirstTime == \A i \in 1..Len(conns) : conns[i] # "closed"

Established == {i \in 1..Len(conns) : conns[i] = "connected"}

\* C8: while first-time connect() calls are in flight on one adapter, in
\* whatever order their bodies and the settling of their promises interleave,
\* the driver has handed out exactly one connection, connect was invoked on it
\* once and the adapter holds it: exactly one connection is established,
\* unless the driver refused that one connect; never a second one.
C8_OneConnectionForConcurrentConnects ==
    FirstTime =>
        /\ Len(conns) <= 1
        /\ Cardinality(Established) <= 1
        /\ (\E c \in Callers : pc[c] = "pending") =>
               /\ Len(conns) = 1
               /\ connectionObj = 1
               /\ conns[1] = "failed" \/ Established = {1}

\* C8 witness: both callers' first-time connect() calls are in flight and the
\* one connection the driver made is connected.
C8_Witness ==
    /\ FirstTime
    /\ \A c \in Callers : pc[c] = "pending"
    /\ call.op = "connect"
    /\ conns = << "connected" >>
    /\ connectionObj = 1

\* C9: when the driver's exec fails during insert, count or updateById, the
\* caller observes an error, never a normal result.
C9_ExecFailureReachesCaller ==
    (call.op \in {"insert", "count", "updateById"}
        /\ \E i \in 1..Len(sql) : ~sql[i].ok) =>
        outcome.kind = "throw"

\* The text position after which the keys of a sort appear in request order,
\* each descending key followed by DESC: 0 when they do not.
\* Whether the text holds DESC at position `at`.
DescAt(text, at) ==
    at + 4 <= Len(text) /\ SubSeq(text, at, at + 4) \in {" DESC", " desc"}

RECURSIVE sortedFrom(_, _, _, _)
sortedFrom(text, sort, n, from) ==
    IF from = 0 THEN 0
    ELSE IF n > Len(sort) THEN from
    ELSE LET at == IndexFrom(text, sortField(sort[n]), from)
             after == at + Len(sortField(sort[n]))
         IN IF at = 0 THEN 0
            ELSE IF sortDir(sort[n]) = -1
                 THEN IF DescAt(text, after) THEN sortedFrom(text, sort, n + 1, after + 5) ELSE 0
                 ELSE IF DescAt(text, after) THEN 0 ELSE sortedFrom(text, sort, n + 1, after)

OrderByAt(text) ==
    IF Contains(text, "ORDER BY ") THEN IndexFrom(text, "ORDER BY ", 1)
    ELSE IndexFrom(text, "order by ", 1)

\* C10: the statement a find with a sort executes is ordered by the keys of
\* the sort in request order, a key with a leading '-' descending and any
\* other ascending.
C10_SortCompiledInOrder ==
    (call.op = "find" /\ outcome.kind = "return" /\ Len(call.params.sort) > 0) =>
        /\ OrderByAt(sql[1].text) # 0
        /\ sortedFrom(sql[1].text, call.params.sort, 1, OrderByAt(sql[1].text)) # 0

(***************************************************************************)
(* Paging and tuning options of find: C11, checked under Spec.             *)
(***************************************************************************)
\* C11: a find whose params carry a limit > 0, an offset > 0, a hint or a
\* collation either fails compilation with a CapabilityError or executes a
\* statement that holds the corresponding clause; it never executes a
\* statement that ignores the option.
C11_OptionsEmittedOrRejected ==
    (call.op = "find" /\ call.params.defined) =>
        \/ outcome.kind = "throw" /\ outcome.text = "CapabilityError" /\ sql = << >>
        \/ \A i \in 1..Len(sql) : sql[i].ok =>
               /\ call.params.limit > 0 =>
                      Contains(sql[i].text, " LIMIT " \o ToString(call.params.limit))
               /\ call.params.offset > 0 =>
                      Contains(sql[i].text, " OFFSET " \o ToString(call.params.offset))
               /\ call.params.hint # "" => Contains(sql[i].text, call.params.hint)
               /\ call.params.collation # "" => Contains(sql[i].text, call.params.collation)

(***************************************************************************)
(* count against find: C12, checked under Spec.                            *)
(***************************************************************************)
\* The filter of a statement: its text from the WHERE keyword on; "" if none.
FilterOf(text) ==
    LET at == IndexFrom(text, " WHERE ", 1)
    IN IF at = 0 THEN "" ELSE SubSeq(text, at, Len(text))

\* C12: count(params) counts the rows find(params) returns: the statement count
\* hands to the driver carries the filter that find's statement carries for
\* the same params.
C12_CountAppliesFilter ==
    (call.op = "count" /\ Len(sql) > 0) =>
        FilterOf(sql[1].text) = FilterOf(findSql(fields, call.params))

(***************************************************************************)
(* The identifier conversions: C13 and C14, checked under Spec.            *)
(***************************************************************************)
\* The value an outcome returned.
ValueOf(o) == Lit([t |-> o.type, n |-> o.n, s |-> o.text])

\* An identifier of the shape the conversion accepts.
WellFormed(id) == (id.t = "string" /\ isValid(id.s)) \/ id.t = "objectid"

\* C13: for every syntactically valid identifier string s, stringToObjectID(s)
\* returns a value, and objectIDToString of that value returns s.
C13_IdentifierRoundTrip ==
    (call.op = "stringToObjectID" /\ call.id.t = "string" /\ isValid(call.id.s)) =>
        /\ outcome.kind = "return"
        /\ objectIDToString(ValueOf(outcome)) = Returned(Str(call.id.s))

\* C14: stringToObjectID fails with an InvalidIdentifierError on a malformed
\* identifier and never hands a malformed value back to the caller.
C14_MalformedIdentifierRejected ==
    (call.op = "stringToObjectID" /\ ~WellFormed(call.id)) =>
        outcome.kind = "throw" /\ outcome.text = "InvalidIdentifierError"

CreateQueryStep ==
    call'.op = "createQuery" /\ <<call', sql', outcome'>> # <<call, sql, outcome>>

StartsWith(text, sub) == Len(text) >= Len(sub) /\ SubSeq(text, 1, Len(sub)) = sub

\* The field is declared with column type string.
stringColumn(fs, column) ==
    keyDef(fs, column) # 0 /\ fs[keyDef(fs, column)].columnType = "string"

\* A value as the statement must carry it for a column.
rendered(fs, column, value) ==
    IF stringColumn(fs, column) THEN "'" \o ToStr(value) \o "'" ELSE ToStr(value)

\* The last call was an updateById with an id and changes that are not
\* empty, on an adapter that holds a connection.
Updating ==
    /\ call.op = "updateById"
    /\ ToStr(call.id) # ""
    /\ Len(call.data) > 0
    /\ connectionObj # 0

\* C17: such an updateById hands the driver exactly one UPDATE statement, on
\* <schema>.<table>, with one assignment per key of changes in the order of
\* the keys, values of string columns quoted, and ending in the condition on
\* _ID with the WHERE keyword apart from the last assignment; a document is
\* returned only after it was read back by that id.
C17_UpdateStatementWellFormed ==
    Updating =>
        LET updates == {i \in 1..Len(sql) : StartsWith(sql[i].text, "UPDATE ")}
            text == sql[1].text
            at(i) == IndexFrom(text,
                         call.data[i].key \o "="
                             \o rendered(fields, call.data[i].key, call.data[i].value), 1)
        IN /\ updates = {1}
           /\ StartsWith(text, "UPDATE " \o schema \o "." \o table \o " SET ")
           /\ \A i \in 1..Len(call.data) : at(i) # 0
           /\ \A i \in 1..(Len(call.data) - 1) : at(i) < at(i + 1)
           /\ EndsWith(text, " WHERE _ID = '" \o ToStr(call.id) \o "'")
           /\ outcome.type = "document" =>
                  /\ Len(sql) = 2
                  /\ sql[2].text = "select * from " \o schema \o "." \o table
                                       \o " WHERE _ID = '" \o ToStr(call.id) \o "'"

\* The entity carries a value for the field.
carries(entity, f) == prop(entity, f.columnName).t # "undefined"

\* The column list and the VALUES list an insert of the entity must hold, over
\* the first n fields of $fields, each entry followed by ", ".
RECURSIVE columnList(_, _, _)
columnList(fs, entity, n) ==
    IF n = 0 THEN ""
    ELSE columnList(fs, entity, n - 1)
             \o (IF carries(entity, fs[n]) THEN fs[n].columnName \o ", " ELSE "")

RECURSIVE valueList(_, _, _)
valueList(fs, entity, n) ==
    IF n = 0 THEN ""
    ELSE valueList(fs, entity, n - 1)
             \o (IF carries(entity, fs[n])
                 THEN rendered(fs, fs[n].columnName, prop(entity, fs[n].columnName)) \o ", "
                 ELSE "")

\* C18: the INSERT statement lists, in the order of service.$fields, exactly
\* the columns of the fields for which the entity carries a value (0, false
\* and '' included) and, in the same order, their values, a value quoted
\* exactly when the column type of its field is string.
C18_InsertListsEveryCarriedField ==
    (call.op = "insert" /\ connectionObj # 0) =>
        /\ Len(sql) = 1
        /\ sql[1].text =
               "insert into " \o schema \o "." \o table
                   \o "(" \o DropLast(columnList(fields, call.data, Len(fields)), 2)
                   \o ") VALUES(" \o DropLast(valueList(fields, call.data, Len(fields)), 2)
                   \o ")"

(***************************************************************************)
(* The connection life cycle: C19 and C20, checked under Spec.             *)
(***************************************************************************)
\* C19: the adapter holds a connection object only when that connection was
\* established; after a failed connect it holds none, so that the next
\* connect() tries again.
C19_HoldsOnlyEstablishedConnection ==
    connectionObj # 0 => conns[connectionObj] = "connected"

\* A step that is a call of connect(), and one that is a call of disconnect().
ConnectStep == \E c \in Callers : pc[c] = "idle" /\ pc'[c] = "pending"
DisconnectStep == call'.op = "disconnect" /\ call.op # "disconnect"

====
